---- MODULE Spec2Model ----
(***************************************************************************)
(* CEP Lost & Found API (src/main.py) as a state machine over the rows of   *)
(* the three tables of src/models.py.  Every FastAPI handler is one action  *)
(* that reads and writes the tables and leaves its JSON response in resp.   *)
(* claim_item and signup are also given as two steps (their reads, then     *)
(* their insert) run by worker threads, for the interleavings of two        *)
(* requests served at the same time.                                        *)
(***************************************************************************)
EXTENDS Integers, Sequences, FiniteSets, TLC

VARIABLES
    users,      \* table users:      id -> row            (models.py User)
    items,      \* table lost_items: id -> row            (models.py LostItem)
    claims,     \* table claims:     id -> row            (models.py Claim)
    nextClaimId,\* AUTO_INCREMENT counter of claims.id
    call,       \* the request served last: its handler and its sender
    resp,       \* the JSONResponse of the request served last
    smtp,       \* the send_email calls made while serving that request
    pc,         \* per worker thread: where its request stands
    args        \* per worker thread: the arguments of its request

vars == <<users, items, claims, nextClaimId, call, resp, smtp, pc, args>>

----------------------------------------------------------------------------
(* Bounds of the model *)

\* claims.id values the AUTO_INCREMENT counter may hand out
MaxClaims == 2
\* worker threads serving requests at the same time
NumWorkers == 2

(* Program constants *)

\* minimum length of a trimmed claim message in claim_item
MinClaimMessageLen == 10

----------------------------------------------------------------------------
(* Rows present in the MySQL database when the service starts.  The store   *)
(* outlives the process (database.py); create_all only adds missing tables. *)
(* No request adds a user or an item: signup and add_lost_item both raise    *)
(* before their INSERT (see below), so the rows they would add are seeded.   *)
(* Items carry the column defaults of models.py: found False, pending.  The  *)
(* image, the dates and the password are written by no modelled handler and  *)
(* are left out of the rows.                                                 *)

UserIds == {1, 2, 3}

SeedUsers ==
    [id \in UserIds |->
        CASE id = 1 -> [role |-> "student", first_name |-> "Ali", last_name |-> "Khan",
                        email |-> "ali@cep.edu"]
          [] id = 2 -> [role |-> "student", first_name |-> "Sara", last_name |-> "Noor",
                        email |-> "sara@cep.edu"]
          [] OTHER  -> [role |-> "admin", first_name |-> "Root", last_name |-> "Admin",
                        email |-> "admin@cep.edu"]]

ItemIds == {1}

SeedItem(owner) ==
    [user_id |-> owner, item_name |-> "Wallet", item_description |-> "Brown leather wallet",
     email |-> "contact@cep.edu", location |-> "Library",
     found |-> FALSE, status |-> "pending"]

----------------------------------------------------------------------------
(* Inputs the requests are drawn from *)

\* who sends a request to a decision endpoint (approve or reject of an item or
\* a claim): the student 1 or the admin 3.  These endpoints take no identity;
\* the others name their sender in user_id, and call.caller is 0 for them.
Callers == {1, 3}
\* user_id arguments: the stored users and one id that belongs to no user
UserIdInputs == UserIds \cup {9}
\* item_id arguments: the seeded ids and one id that was never stored
ItemIdInputs == ItemIds \cup {7}
ClaimIdInputs == 1..(MaxClaims + 1)
\* claim_message arguments: 12 characters that trim to 9, and 12 that trim to 10
MessageInputs == {"  too short ", " 0123456789 "}
EmailInputs == {"ali@cep.edu", "new@cep.edu"}

Workers == 1..NumWorkers

----------------------------------------------------------------------------
(* Helpers *)

\* str.strip(): drop leading and trailing whitespace
IsSpace(c) == c \in {" ", "\t", "\n", "\r"}

RECURSIVE LStrip(_)
LStrip(s) ==
    IF Len(s) > 0 /\ IsSpace(SubSeq(s, 1, 1))
    THEN LStrip(SubSeq(s, 2, Len(s)))
    ELSE s

RECURSIVE RStrip(_)
RStrip(s) ==
    IF Len(s) > 0 /\ IsSpace(SubSeq(s, Len(s), Len(s)))
    THEN RStrip(SubSeq(s, 1, Len(s) - 1))
    ELSE s

strip(s) == RStrip(LStrip(s))

\* JSONResponse(status_code, content={status, message, data})
JSONResponse(code, status, message, data) ==
    [status_code |-> code, status |-> status, message |-> message, data |-> data]

\* "data": None
None == [none |-> TRUE]

\* the request a handler is serving: its name and who sent it
Request(op, caller) == [op |-> op, caller |-> caller]

\* role of the sender of a request, "none" when it carries no stored identity
CallerRole(c) == IF c \in DOMAIN users THEN users[c].role ELSE "none"

\* str(e) of the AttributeError raised by user.fullname (UserCreate has no such field)
NoFullname == "'UserCreate' object has no attribute 'fullname'"
\* str(e) of the TypeError raised by LostItem(item_type=...) (no such column)
NoItemTypeColumn == "'item_type' is an invalid keyword argument for LostItem"
\* str(e) of the AttributeError raised by item.item_type in serialize_item
NoItemTypeAttr == "'LostItem' object has no attribute 'item_type'"
\* str(e) of the IntegrityError raised by an insert that breaks a foreign key
ForeignKeyError == "(pymysql.err.IntegrityError) (1452, 'Cannot add or update a child row: a foreign key constraint fails')"

\* the owner query without its filter on user_id
OwnedItem_Mut(item_id, user_id) == item_id \in DOMAIN items

\* db.query(LostItem).filter(LostItem.id == item_id, LostItem.user_id == user_id).first()
OwnedItem(item_id, user_id) ==
    item_id \in DOMAIN items /\ items[item_id].user_id = user_id

----------------------------------------------------------------------------
(* The service after start-up, GET / answered *)

Init ==
    /\ users = SeedUsers
    /\ items = [i \in ItemIds |-> SeedItem(1)]
    /\ claims = <<>>
    /\ nextClaimId = 1
    /\ call = Request("root", 0)
    /\ resp = JSONResponse(200, "success", "CEP Lost & Found API is running!", None)
    /\ smtp = <<>>
    /\ pc = [w \in Workers |-> "idle"]
    /\ args = [w \in Workers |-> None]

\* what a handler that runs in one piece leaves alone
Serial == UNCHANGED <<pc, args>>

----------------------------------------------------------------------------
(* POST /signup *)

EmailRegistered(email) == \E u \in DOMAIN users : users[u].email = email

signup(email) ==
    /\ call' = Request("signup", 0)
    /\ smtp' = <<>>
    /\ IF EmailRegistered(email)
       THEN resp' = JSONResponse(400, "failed", "Email already registered", None)
       ELSE \* User(fullname=user.fullname, ...) raises; except Exception: db.rollback()
            resp' = JSONResponse(500, "failed", "Internal server error: " \o NoFullname, None)
    /\ UNCHANGED <<users, items, claims, nextClaimId>>
    /\ Serial

----------------------------------------------------------------------------
(* POST /items/approve/{item_id} and POST /items/reject/{item_id} *)

approve_item(caller, item_id) ==
    /\ call' = Request("approve_item", caller)
    /\ smtp' = <<>>
    /\ IF item_id \notin DOMAIN items
       THEN /\ resp' = JSONResponse(404, "failed", "Item not found", None)
            /\ UNCHANGED items
       ELSE /\ items' = [items EXCEPT ![item_id].status = "approved"]
            /\ resp' = JSONResponse(200, "success",
                          "Item " \o ToString(item_id) \o " approved successfully",
                          [item_id |-> item_id, status |-> "approved"])
    /\ UNCHANGED <<users, claims, nextClaimId>>
    /\ Serial

\* reject_item taking the found mark back from the item it rejects
reject_item_ClearsFound(caller, item_id) ==
    /\ call' = Request("reject_item", caller)
    /\ smtp' = <<>>
    /\ IF item_id \notin DOMAIN items
       THEN /\ resp' = JSONResponse(404, "failed", "Item not found", None)
            /\ UNCHANGED items
       ELSE /\ items' = [items EXCEPT ![item_id].status = "rejected",
                                      ![item_id].found = FALSE]
            /\ resp' = JSONResponse(200, "success",
                          "Item " \o ToString(item_id) \o " rejected successfully",
                          [item_id |-> item_id, status |-> "rejected"])
    /\ UNCHANGED <<users, claims, nextClaimId>>
    /\ Serial

\* reject_item deciding pending items only
reject_item_Mut(caller, item_id) ==
    /\ call' = Request("reject_item", caller)
    /\ smtp' = <<>>
    /\ IF item_id \notin DOMAIN items
       THEN /\ resp' = JSONResponse(404, "failed", "Item not found", None)
            /\ UNCHANGED items
       ELSE IF items[item_id].status # "pending"
       THEN /\ resp' = JSONResponse(400, "failed", "Item is already decided", None)
            /\ UNCHANGED items
       ELSE /\ items' = [items EXCEPT ![item_id].status = "rejected"]
            /\ resp' = JSONResponse(200, "success",
                          "Item " \o ToString(item_id) \o " rejected successfully",
                          [item_id |-> item_id, status |-> "rejected"])
    /\ UNCHANGED <<users, claims, nextClaimId>>
    /\ Serial

reject_item(caller, item_id) ==
    /\ call' = Request("reject_item", caller)
    /\ smtp' = <<>>
    /\ IF item_id \notin DOMAIN items
       THEN /\ resp' = JSONResponse(404, "failed", "Item not found", None)
            /\ UNCHANGED items
       ELSE /\ items' = [items EXCEPT ![item_id].status = "rejected"]
            /\ resp' = JSONResponse(200, "success",
                          "Item " \o ToString(item_id) \o " rejected successfully",
                          [item_id |-> item_id, status |-> "rejected"])
    /\ UNCHANGED <<users, claims, nextClaimId>>
    /\ Serial

----------------------------------------------------------------------------
(* POST /items/add *)

\* 5 * 1024 * 1024
max_size == 5242880

\* the multipart form of a submission: text fields and the uploaded file
ValidForm ==
    [item_type |-> "lost", item_name |-> "Keys", item_description |-> "Bunch of three keys",
     content_type |-> "image/png", size |-> 1024, location |-> "Cafeteria"]

FormInputs ==
    { ValidForm,
      [ValidForm EXCEPT !.item_description = "too short"] }

\* content_type.startswith('image/')
IsImage(content_type) == Len(content_type) >= 6 /\ SubSeq(content_type, 1, 6) = "image/"

add_lost_item(user_id, form) ==
    /\ call' = Request("add_lost_item", 0)
    /\ smtp' = <<>>
    /\ resp' =
         IF user_id \notin DOMAIN users
         THEN JSONResponse(404, "failed", "User not found", None)
         ELSE IF form.item_type \notin {"lost", "found"}
         THEN JSONResponse(400, "failed", "Item type must be either 'lost' or 'found'", None)
         ELSE IF Len(form.item_name) < 3 \/ Len(form.item_name) > 100
         THEN JSONResponse(400, "failed", "Item name must be between 3 and 100 characters", None)
         ELSE IF Len(form.item_description) < 10 \/ Len(form.item_description) > 500
         THEN JSONResponse(400, "failed",
                           "Item description must be between 10 and 500 characters", None)
         ELSE IF Len(form.location) < 3 \/ Len(form.location) > 100
         THEN JSONResponse(400, "failed", "Location must be between 3 and 100 characters", None)
         ELSE IF ~IsImage(form.content_type)
         THEN JSONResponse(400, "failed", "Uploaded file must be an image", None)
         ELSE IF form.size > max_size
         THEN JSONResponse(400, "failed", "Image size must not exceed 5MB", None)
         ELSE \* LostItem(item_type=item_type, ...) raises; except Exception: db.rollback()
              JSONResponse(500, "failed", "Failed to add item: " \o NoItemTypeColumn, None)
    /\ UNCHANGED <<users, items, claims, nextClaimId>>
    /\ Serial

----------------------------------------------------------------------------
(* DELETE /items/{item_id} *)

\* the cascade reaching only the claims that are still pending
ClaimsOf_Mut(item_id) ==
    {c \in DOMAIN claims : claims[c].item_id = item_id /\ claims[c].status = "pending"}

\* cascade="all, delete-orphan" on LostItem.claims: the claims against the item
ClaimsOf(item_id) == {c \in DOMAIN claims : claims[c].item_id = item_id}

Restrict(f, S) == [x \in S |-> f[x]]

delete_item(item_id, user_id) ==
    /\ call' = Request("delete_item", 0)
    /\ smtp' = <<>>
    /\ IF ~OwnedItem(item_id, user_id)
       THEN /\ resp' = JSONResponse(404, "failed", "Item not found or unauthorized", None)
            /\ UNCHANGED <<items, claims>>
       ELSE /\ claims' = Restrict(claims, DOMAIN claims \ ClaimsOf(item_id))
            /\ items' = Restrict(items, DOMAIN items \ {item_id})
            /\ resp' = JSONResponse(200, "success",
                          "Item " \o ToString(item_id) \o " deleted successfully",
                          [item_id |-> item_id])
    /\ UNCHANGED <<users, nextClaimId>>
    /\ Serial

----------------------------------------------------------------------------
(* PUT /items/{item_id}/edit *)

\* a field of LostItemUpdate the request leaves unset (exclude_unset=True drops it)
Unset == "<unset>"

NoUpdate ==
    [item_name |-> Unset, item_description |-> Unset, email |-> Unset, location |-> Unset]

\* LostItemUpdate payloads: nothing set, and a new name and location
UpdateInputs ==
    { NoUpdate,
      [NoUpdate EXCEPT !.item_name = "Black wallet", !.location = "Main gate"] }

\* an edit that sends the item back to moderation
ApplyUpdate_Mut(item, updated_item) ==
    [f \in DOMAIN item |->
        IF f = "status" THEN "pending"
        ELSE IF f \in DOMAIN updated_item /\ updated_item[f] # Unset
        THEN updated_item[f]
        ELSE item[f]]

\* update_data = updated_item.model_dump(exclude_unset=True)
\* for field, value in update_data.items(): setattr(item, field, value)
ApplyUpdate(item, updated_item) ==
    [f \in DOMAIN item |->
        IF f \in DOMAIN updated_item /\ updated_item[f] # Unset
        THEN updated_item[f]
        ELSE item[f]]

edit_item(item_id, user_id, updated_item) ==
    /\ call' = Request("edit_item", 0)
    /\ smtp' = <<>>
    /\ IF ~OwnedItem(item_id, user_id)
       THEN /\ resp' = JSONResponse(404, "failed", "Item not found or unauthorized", None)
            /\ UNCHANGED items
       ELSE \* db.commit() stores the update, then serialize_item(item) raises
            /\ items' = [items EXCEPT ![item_id] = ApplyUpdate(@, updated_item)]
            /\ resp' = JSONResponse(500, "failed",
                          "Failed to update item: " \o NoItemTypeAttr, None)
    /\ UNCHANGED <<users, claims, nextClaimId>>
    /\ Serial

----------------------------------------------------------------------------
(* PUT /items/{item_id}/found *)

\* the check of mark_as_found turning away pending items only
NotYetApproved_Mut(item) == item.status = "pending"

\* if item.status != "approved"
NotYetApproved(item) == item.status # "approved"

mark_as_found(item_id, user_id) ==
    /\ call' = Request("mark_as_found", 0)
    /\ smtp' = <<>>
    /\ IF ~OwnedItem(item_id, user_id)
       THEN /\ resp' = JSONResponse(404, "failed", "Item not found or unauthorized", None)
            /\ UNCHANGED items
       ELSE IF NotYetApproved(items[item_id])
       THEN /\ resp' = JSONResponse(400, "failed",
                          "Only approved items can be marked as found", None)
            /\ UNCHANGED items
       ELSE \* db.commit() stores found, then serialize_item(item) raises
            /\ items' = [items EXCEPT ![item_id].found = TRUE]
            /\ resp' = JSONResponse(500, "failed",
                          "Failed to mark item as found: " \o NoItemTypeAttr, None)
    /\ UNCHANGED <<users, claims, nextClaimId>>
    /\ Serial

----------------------------------------------------------------------------
(* POST /claim *)

\* the check of claim_item turning away rejected items only
NotClaimable_Mut(item) == item.status = "rejected"

\* if item.status != "approved"
NotClaimable(item) == item.status # "approved"

\* claim_item without its self-claim check
IsOwnItem_Mut(item, user_id) == FALSE

\* if item.user_id == user_id
IsOwnItem(item, user_id) == item.user_id = user_id

\* the duplicate check filtering on the wrong status
existing_claim_Mut(user_id, item_id) ==
    {c \in DOMAIN claims : /\ claims[c].user_id = user_id
                           /\ claims[c].item_id = item_id
                           /\ claims[c].status = "approved"}

\* the duplicate check without its filter on status
existing_claim_AnyStatus(user_id, item_id) ==
    {c \in DOMAIN claims : /\ claims[c].user_id = user_id
                           /\ claims[c].item_id = item_id}

\* db.query(Claim).filter(user_id, item_id, status == "pending").first()
existing_claim(user_id, item_id) ==
    {c \in DOMAIN claims : /\ claims[c].user_id = user_id
                           /\ claims[c].item_id = item_id
                           /\ claims[c].status = "pending"}

\* the length check measuring the message as sent, untrimmed
MessageTooShort_Mut(claim_message) ==
    claim_message = "" \/ Len(claim_message) < MinClaimMessageLen

\* if not claim_message or len(claim_message.strip()) < 10
MessageTooShort(claim_message) ==
    claim_message = "" \/ Len(strip(claim_message)) < MinClaimMessageLen

\* the checks of claim_item with the message validated first
claim_checks_Mut(item_id, user_id, claim_message) ==
    IF MessageTooShort(claim_message)
    THEN JSONResponse(400, "failed", "Claim message must be at least 10 characters", None)
    ELSE IF item_id \notin DOMAIN items
    THEN JSONResponse(404, "failed", "Item not found", None)
    ELSE IF NotClaimable(items[item_id])
    THEN JSONResponse(400, "failed", "Items must be approved by admin before claiming", None)
    ELSE IF IsOwnItem(items[item_id], user_id)
    THEN JSONResponse(400, "failed", "You cannot claim your own item", None)
    ELSE IF existing_claim(user_id, item_id) # {}
    THEN JSONResponse(400, "failed", "You already have a pending claim for this item", None)
    ELSE None

\* the response of the checks of steps 1 to 5, or None when they all pass
claim_checks(item_id, user_id, claim_message) ==
    IF item_id \notin DOMAIN items
    THEN JSONResponse(404, "failed", "Item not found", None)
    ELSE IF NotClaimable(items[item_id])
    THEN JSONResponse(400, "failed", "Items must be approved by admin before claiming", None)
    ELSE IF IsOwnItem(items[item_id], user_id)
    THEN JSONResponse(400, "failed", "You cannot claim your own item", None)
    ELSE IF existing_claim(user_id, item_id) # {}
    THEN JSONResponse(400, "failed", "You already have a pending claim for this item", None)
    ELSE IF MessageTooShort(claim_message)
    THEN JSONResponse(400, "failed", "Claim message must be at least 10 characters", None)
    ELSE None

\* a store that does not enforce the foreign keys of claims
ForeignKeysHold_Mut(item_id, user_id) == TRUE

\* the INSERT of step 6 keeps the foreign keys of claims.user_id and claims.item_id
ForeignKeysHold(item_id, user_id) ==
    item_id \in DOMAIN items /\ user_id \in DOMAIN users

\* step 6: Claim(...), db.add, db.commit, db.refresh and the success response;
\* a broken foreign key raises in db.commit, and except Exception rolls back
claim_insert(item_id, user_id, claim_message) ==
    IF ForeignKeysHold(item_id, user_id)
    THEN /\ nextClaimId <= MaxClaims
         /\ claims' = (nextClaimId :> [user_id |-> user_id, item_id |-> item_id,
                                       claim_message |-> strip(claim_message),
                                       status |-> "pending"]) @@ claims
         /\ nextClaimId' = nextClaimId + 1
         /\ resp' = JSONResponse(200, "success", "Claim submitted successfully",
                       [claim_id |-> nextClaimId, item_id |-> item_id, status |-> "pending"])
    ELSE /\ resp' = JSONResponse(500, "failed",
                       "Failed to submit claim: " \o ForeignKeyError, None)
         /\ UNCHANGED <<claims, nextClaimId>>

claim_item(item_id, user_id, claim_message) ==
    /\ call' = Request("claim_item", 0)
    /\ smtp' = <<>>
    /\ IF claim_checks(item_id, user_id, claim_message) # None
       THEN /\ resp' = claim_checks(item_id, user_id, claim_message)
            /\ UNCHANGED <<claims, nextClaimId>>
       ELSE claim_insert(item_id, user_id, claim_message)
    /\ UNCHANGED <<users, items>>
    /\ Serial

----------------------------------------------------------------------------
(* email_helper.send_email and PUT /claims/{claim_id}/approve, /reject *)

\* send_email: one SMTP session to smtp.gmail.com for the message.  delivered
\* is the server's outcome; every exception of the session is caught inside
\* send_email, which returns None either way.
send_email(to_email, subject, delivered) ==
    [to_email |-> to_email, subject |-> subject, delivered |-> delivered]

\* claim.item.user and claim.user can be followed (else the try block raises)
CanCompose(claim) ==
    /\ claim.item_id \in DOMAIN items
    /\ items[claim.item_id].user_id \in DOMAIN users
    /\ claim.user_id \in DOMAIN users

\* the try block of approve_claim: compose, send_email(...), email_sent = True;
\* except Exception leaves email_sent False
email_sent(claim, delivered) == CanCompose(claim)

\* approve_claim turning down the other pending claims against the item
approve_claim_Mut(caller, claim_id, delivered) ==
    /\ call' = Request("approve_claim", caller)
    /\ IF claim_id \notin DOMAIN claims
       THEN /\ resp' = JSONResponse(404, "failed", "Claim not found", None)
            /\ smtp' = <<>>
            /\ UNCHANGED claims
       ELSE /\ claims' =
                 [c \in DOMAIN claims |->
                    IF c = claim_id THEN [claims[c] EXCEPT !.status = "approved"]
                    ELSE IF /\ claims[c].item_id = claims[claim_id].item_id
                            /\ claims[c].status = "pending"
                    THEN [claims[c] EXCEPT !.status = "rejected"]
                    ELSE claims[c]]
            /\ smtp' =
                 IF CanCompose(claims[claim_id])
                 THEN << send_email(
                            users[items[claims[claim_id].item_id].user_id].email,
                            "Your found item '" \o items[claims[claim_id].item_id].item_name
                                \o "' has been claimed",
                            delivered) >>
                 ELSE <<>>
            /\ resp' = JSONResponse(200, "success",
                          "Claim " \o ToString(claim_id) \o " approved"
                             \o (IF email_sent(claims[claim_id], delivered)
                                 THEN " and finder notified by email"
                                 ELSE " (email notification failed)"),
                          [claim_id |-> claim_id, status |-> "approved",
                           email_sent |-> email_sent(claims[claim_id], delivered)])
    /\ UNCHANGED <<users, items, nextClaimId>>
    /\ Serial

approve_claim(caller, claim_id, delivered) ==
    /\ call' = Request("approve_claim", caller)
    /\ IF claim_id \notin DOMAIN claims
       THEN /\ resp' = JSONResponse(404, "failed", "Claim not found", None)
            /\ smtp' = <<>>
            /\ UNCHANGED claims
       ELSE /\ claims' = [claims EXCEPT ![claim_id].status = "approved"]
            /\ smtp' =
                 IF CanCompose(claims[claim_id])
                 THEN << send_email(
                            users[items[claims[claim_id].item_id].user_id].email,
                            "Your found item '" \o items[claims[claim_id].item_id].item_name
                                \o "' has been claimed",
                            delivered) >>
                 ELSE <<>>
            /\ resp' = JSONResponse(200, "success",
                          "Claim " \o ToString(claim_id) \o " approved"
                             \o (IF email_sent(claims[claim_id], delivered)
                                 THEN " and finder notified by email"
                                 ELSE " (email notification failed)"),
                          [claim_id |-> claim_id, status |-> "approved",
                           email_sent |-> email_sent(claims[claim_id], delivered)])
    /\ UNCHANGED <<users, items, nextClaimId>>
    /\ Serial

\* reject_claim notifying the item's owner as approve_claim does
reject_claim_Mut(caller, claim_id) ==
    /\ call' = Request("reject_claim", caller)
    /\ IF claim_id \notin DOMAIN claims
       THEN /\ resp' = JSONResponse(404, "failed", "Claim not found", None)
            /\ smtp' = <<>>
            /\ UNCHANGED claims
       ELSE /\ claims' = [claims EXCEPT ![claim_id].status = "rejected"]
            /\ smtp' = << send_email(
                            users[items[claims[claim_id].item_id].user_id].email,
                            "A claim on your item was rejected", TRUE) >>
            /\ resp' = JSONResponse(200, "success",
                          "Claim " \o ToString(claim_id) \o " rejected successfully",
                          [claim_id |-> claim_id, status |-> "rejected"])
    /\ UNCHANGED <<users, items, nextClaimId>>
    /\ Serial

reject_claim(caller, claim_id) ==
    /\ call' = Request("reject_claim", caller)
    /\ smtp' = <<>>
    /\ IF claim_id \notin DOMAIN claims
       THEN /\ resp' = JSONResponse(404, "failed", "Claim not found", None)
            /\ UNCHANGED claims
       ELSE /\ claims' = [claims EXCEPT ![claim_id].status = "rejected"]
            /\ resp' = JSONResponse(200, "success",
                          "Claim " \o ToString(claim_id) \o " rejected successfully",
                          [claim_id |-> claim_id, status |-> "rejected"])
    /\ UNCHANGED <<users, items, nextClaimId>>
    /\ Serial

----------------------------------------------------------------------------
(* The list and view operations: GET /items/pending, /items/approved,       *)
(* /items/all, /items/{item_id}, /my-items/{user_id} and /claims/pending.   *)
(* They query and answer; none of them writes.  serialize_item raises on    *)
(* the first row it is given, so a list of items answers 200 only when the  *)
(* query matches no row.                                                    *)

\* str(e) of the AttributeError raised by LostItem.item_type in a filter
NoItemTypeClassAttr == "type object 'LostItem' has no attribute 'item_type'"

\* the ids of a query's rows as .all() returns them, in primary-key order
RECURSIVE InIdOrder(_)
InIdOrder(S) ==
    IF S = {} THEN <<>>
    ELSE LET least == CHOOSE x \in S : \A y \in S : x <= y
         IN  <<least>> \o InIdOrder(S \ {least})

\* a handler that only reads: its request, its answer, no write
ReadOnly(op, response) ==
    /\ call' = Request(op, 0)
    /\ resp' = response
    /\ smtp' = <<>>
    /\ UNCHANGED <<users, items, claims, nextClaimId>>
    /\ Serial

\* [serialize_item(i) for i in rows] inside a try: the answer of a list of items
ItemList(rows, no_rows, found_message, failed_message) ==
    IF rows = {}
    THEN JSONResponse(200, "success", found_message, no_rows)
    ELSE JSONResponse(500, "failed", failed_message \o NoItemTypeAttr, None)

get_pending_items ==
    ReadOnly("get_pending_items",
             ItemList({i \in DOMAIN items : items[i].status = "pending"},
                      [pending_count |-> 0, items |-> <<>>],
                      "Pending items retrieved successfully",
                      "Failed to retrieve pending items: "))

get_approved_items ==
    ReadOnly("get_approved_items",
             ItemList({i \in DOMAIN items : items[i].status = "approved"},
                      [approved_count |-> 0, items |-> <<>>],
                      "Approved items retrieved successfully",
                      "Failed to retrieve approved items: "))

\* item_type values of GET /items/all: none given, a valid one, an invalid one
ItemTypeInputs == {"", "lost", "misplaced"}

get_all_items(item_type) ==
    ReadOnly("get_all_items",
             IF item_type # "" /\ item_type \notin {"lost", "found"}
             THEN JSONResponse(400, "failed", "Item type must be either 'lost' or 'found'", None)
             ELSE IF item_type # ""
             THEN \* query.filter(LostItem.item_type == item_type) raises
                  JSONResponse(500, "failed",
                               "Failed to retrieve items: " \o NoItemTypeClassAttr, None)
             ELSE ItemList(DOMAIN items, [count |-> 0, items |-> <<>>],
                           "Items retrieved successfully",
                           "Failed to retrieve items: "))

view_item(item_id) ==
    ReadOnly("view_item",
             IF item_id \notin DOMAIN items
             THEN JSONResponse(404, "failed", "Item not found", None)
             ELSE JSONResponse(500, "failed",
                               "Failed to retrieve item: " \o NoItemTypeAttr, None))

get_my_items(user_id) ==
    ReadOnly("get_my_items",
             ItemList({i \in DOMAIN items : items[i].user_id = user_id},
                      [count |-> 0, items |-> <<>>],
                      "User items retrieved successfully",
                      "Failed to retrieve user items: "))

\* one entry of claims_with_details
ClaimDetails(c) ==
    [id |-> c, user_id |-> claims[c].user_id, item_id |-> claims[c].item_id,
     item_name |-> IF claims[c].item_id \in DOMAIN items
                   THEN items[claims[c].item_id].item_name ELSE "N/A",
     claim_message |-> claims[c].claim_message, status |-> claims[c].status]

get_pending_claims ==
    LET pending_claims == InIdOrder({c \in DOMAIN claims : claims[c].status = "pending"})
    IN  ReadOnly("get_pending_claims",
                 JSONResponse(200, "success", "Pending claims retrieved successfully",
                     [count |-> Len(pending_claims),
                      claims |-> [n \in 1..Len(pending_claims) |->
                                     ClaimDetails(pending_claims[n])]]))

----------------------------------------------------------------------------
(* Requests served one at a time *)

Next ==
    \/ \E e \in EmailInputs : signup(e)
    \/ \E u \in {1, 9}, f \in FormInputs : add_lost_item(u, f)
    \/ \E c \in Callers, i \in ItemIdInputs : approve_item(c, i)
    \/ \E c \in Callers, i \in ItemIdInputs : reject_item(c, i)
    \/ \E i \in ItemIdInputs, u \in UserIdInputs : delete_item(i, u)
    \/ \E i \in ItemIdInputs, u \in UserIdInputs, p \in UpdateInputs : edit_item(i, u, p)
    \/ \E i \in ItemIdInputs, u \in UserIdInputs : mark_as_found(i, u)
    \/ \E i \in ItemIdInputs, u \in UserIdInputs, m \in MessageInputs : claim_item(i, u, m)
    \/ \E c \in Callers, k \in ClaimIdInputs, d \in BOOLEAN : approve_claim(c, k, d)
    \/ \E c \in Callers, k \in ClaimIdInputs : reject_claim(c, k)
    \/ get_pending_items
    \/ get_approved_items
    \/ \E t \in ItemTypeInputs : get_all_items(t)
    \/ \E i \in ItemIdInputs : view_item(i)
    \/ \E u \in UserIdInputs : get_my_items(u)
    \/ get_pending_claims

Spec == Init /\ [][Next]_vars

----------------------------------------------------------------------------
(* Requests served at the same time.  FastAPI runs each def handler on a    *)
(* thread of its pool with a database session of its own, so the reads of   *)
(* one request and its later INSERT are separate steps between which other  *)
(* requests commit.  No handler locks a row, and claims has no unique key.  *)

\* claim_item up to its step 5: the reads and checks
claim_item_begin(w, item_id, user_id, claim_message) ==
    /\ pc[w] = "idle"
    /\ IF claim_checks(item_id, user_id, claim_message) # None
       THEN /\ call' = Request("claim_item", 0)
            /\ resp' = claim_checks(item_id, user_id, claim_message)
            /\ smtp' = <<>>
            /\ UNCHANGED <<pc, args>>
       ELSE /\ pc' = [pc EXCEPT ![w] = "claim_insert"]
            /\ args' = [args EXCEPT ![w] = [item_id |-> item_id, user_id |-> user_id,
                                            claim_message |-> claim_message]]
            /\ UNCHANGED <<call, resp, smtp>>
    /\ UNCHANGED <<users, items, claims, nextClaimId>>

\* claim_item from its step 6: the INSERT, the commit and the response
claim_item_commit(w) ==
    /\ pc[w] = "claim_insert"
    /\ call' = Request("claim_item", 0)
    /\ smtp' = <<>>
    /\ claim_insert(args[w].item_id, args[w].user_id, args[w].claim_message)
    /\ pc' = [pc EXCEPT ![w] = "idle"]
    /\ args' = [args EXCEPT ![w] = None]
    /\ UNCHANGED <<users, items>>

\* signup up to its email check
signup_begin(w, email) ==
    /\ pc[w] = "idle"
    /\ IF EmailRegistered(email)
       THEN /\ call' = Request("signup", 0)
            /\ resp' = JSONResponse(400, "failed", "Email already registered", None)
            /\ smtp' = <<>>
            /\ UNCHANGED <<pc, args>>
       ELSE /\ pc' = [pc EXCEPT ![w] = "signup_create"]
            /\ args' = [args EXCEPT ![w] = [email |-> email]]
            /\ UNCHANGED <<call, resp, smtp>>
    /\ UNCHANGED <<users, items, claims, nextClaimId>>

\* signup from the hashing on: User(fullname=user.fullname, ...) raises before
\* db.add, and except Exception rolls back and answers 500
signup_commit(w) ==
    /\ pc[w] = "signup_create"
    /\ call' = Request("signup", 0)
    /\ smtp' = <<>>
    /\ resp' = JSONResponse(500, "failed", "Internal server error: " \o NoFullname, None)
    /\ pc' = [pc EXCEPT ![w] = "idle"]
    /\ args' = [args EXCEPT ![w] = None]
    /\ UNCHANGED <<users, items, claims, nextClaimId>>

NextConc ==
    \/ \E w \in Workers, i \in ItemIdInputs, u \in UserIdInputs, m \in MessageInputs :
          claim_item_begin(w, i, u, m)
    \/ \E w \in Workers : claim_item_commit(w)
    \/ \E w \in Workers, e \in EmailInputs : signup_begin(w, e)
    \/ \E w \in Workers : signup_commit(w)
    \/ \E c \in Callers, i \in ItemIdInputs : approve_item(c, i)
    \/ \E c \in Callers, i \in ItemIdInputs : reject_item(c, i)
    \/ \E i \in ItemIdInputs, u \in UserIdInputs : delete_item(i, u)

SpecConc == Init /\ [][NextConc]_vars

----------------------------------------------------------------------------
(* Properties *)

\* the stored items whose status differs after the step
ItemStatusChanged ==
    {i \in DOMAIN items \cap DOMAIN items' : items'[i].status # items[i].status}

\* the stored claims whose status differs after the step
ClaimStatusChanged ==
    {c \in DOMAIN claims \cap DOMAIN claims' : claims'[c].status # claims[c].status}

\* the pending claims of one claimant against one item
PendingOf(tbl, u, i) ==
    {c \in DOMAIN tbl : tbl[c].user_id = u /\ tbl[c].item_id = i /\ tbl[c].status = "pending"}

\* the claims a step inserts
NewClaims == DOMAIN claims' \ DOMAIN claims

\* C1: every stored item with found = true has status = approved.
C1_FoundImpliesApproved ==
    \A i \in DOMAIN items : items[i].found => items[i].status = "approved"

\* C2: no stored claim is made by the owner of the claimed item, and
\* claim_item by the owner of an approved item answers with the self-claim
\* error and inserts no claim.
C2_NoSelfClaim ==
    [][ /\ claims' # claims =>
              \A c \in DOMAIN claims' :
                 claims'[c].item_id \in DOMAIN items'
                    => claims'[c].user_id # items'[claims'[c].item_id].user_id
        /\ call'.op = "claim_item" =>
              \A i \in DOMAIN items, u \in UserIdInputs, m \in MessageInputs :
                 ( /\ items[i].status = "approved"
                   /\ items[i].user_id = u
                   /\ claim_item(i, u, m) )
                 => ( /\ resp'.status = "failed"
                      /\ resp'.message = "You cannot claim your own item"
                      /\ claims' = claims ) ]_vars

C2_Witness ==
    /\ call.op = "claim_item"
    /\ resp.message = "You cannot claim your own item"
    /\ \E i \in DOMAIN items : items[i].status = "approved"
    /\ DOMAIN claims # {}

\* C3: two claim submissions of one claimant against one item that run at
\* the same time do not both succeed: the pair has at most one pending claim.
C3_OneOfTwoSucceeds ==
    \A u \in UserIdInputs, i \in ItemIdInputs : Cardinality(PendingOf(claims, u, i)) <= 1

\* C4: a signup attempt either creates the user or fails with the
\* duplicate-email error, and no email is stored twice.
C4_SecondSignupIsDuplicate ==
    /\ (call.op = "signup" /\ resp.status = "failed")
          => (resp.status_code = 400 /\ resp.message = "Email already registered")
    /\ \A a, b \in DOMAIN users : users[a].email = users[b].email => a = b

\* C5: approve_claim on an existing claim leaves it approved, makes exactly
\* one notification attempt, to the email of the item's owner, and reports
\* in email_sent whether the message was delivered.
C5_EmailSentIsOutcome ==
    (call.op = "approve_claim" /\ resp.status_code # 404)
       => /\ resp.status = "success"
          /\ claims[resp.data.claim_id].status = "approved"
          /\ Len(smtp) = 1
          /\ smtp[1].to_email = users[items[claims[resp.data.claim_id].item_id].user_id].email
          /\ resp.data.email_sent = smtp[1].delivered

\* C6: when the notification of approve_claim is not delivered, the claim
\* stays approved, the operation reports success, and email_sent reports the
\* failure.
C6_FailureOnlyInFlag ==
    (call.op = "approve_claim" /\ smtp # <<>> /\ ~smtp[1].delivered)
       => /\ resp.status = "success"
          /\ claims[resp.data.claim_id].status = "approved"
          /\ resp.data.email_sent = FALSE

\* C7: mark_as_found by the owner of a pending or rejected item fails with
\* 'Only approved items can be marked as found' and changes no stored row.
C7_MarkFoundNeedsApproved ==
    [][ call'.op = "mark_as_found" =>
           \A i \in DOMAIN items, u \in UserIdInputs :
              ( /\ items[i].user_id = u
                /\ items[i].status \in {"pending", "rejected"}
                /\ mark_as_found(i, u) )
              => ( /\ resp'.status = "failed"
                   /\ resp'.message = "Only approved items can be marked as found"
                   /\ items' = items
                   /\ claims' = claims
                   /\ users' = users ) ]_vars

C7_Witness ==
    /\ call.op = "mark_as_found"
    /\ resp.message = "Only approved items can be marked as found"
    /\ \E i \in DOMAIN items :
          items[i].status = "rejected" /\ ~items[i].found

\* C8: a step that changes the status of an item or of a claim is made by a
\* caller whose role is admin.
C8_OnlyAdminsDecide ==
    [][ (ItemStatusChanged # {} \/ ClaimStatusChanged # {})
           => CallerRole(call'.caller) = "admin" ]_vars

\* C9: claim_item against a missing item fails with not-found, against a
\* pending or rejected item with 'must be approved', neither inserts a claim,
\* and every inserted claim is against a stored item that is approved.
C9_ClaimNeedsApprovedItem ==
    [][ /\ call'.op = "claim_item" =>
              \A i \in ItemIdInputs, u \in UserIdInputs, m \in MessageInputs :
                 /\ (i \notin DOMAIN items /\ claim_item(i, u, m))
                       => ( /\ resp'.status_code = 404
                            /\ resp'.message = "Item not found"
                            /\ claims' = claims )
                 /\ ( /\ i \in DOMAIN items
                      /\ items[i].status \in {"pending", "rejected"}
                      /\ claim_item(i, u, m) )
                       => ( /\ resp'.status = "failed"
                            /\ resp'.message = "Items must be approved by admin before claiming"
                            /\ claims' = claims )
        /\ \A c \in NewClaims :
              /\ claims'[c].item_id \in DOMAIN items
              /\ items[claims'[c].item_id].status = "approved" ]_vars

C9_Witness ==
    /\ call.op = "claim_item"
    /\ resp.message = "Items must be approved by admin before claiming"
    /\ \E i \in DOMAIN items : items[i].status = "rejected"

\* C10: with requests served one at a time, a claimant has at most one
\* pending claim against an item, and claim_item by a user with a pending
\* claim against the item fails with the duplicate error and inserts nothing.
C10_OnePendingPerPair ==
    [][ /\ claims' # claims =>
              \A u \in UserIdInputs, i \in ItemIdInputs :
                 Cardinality(PendingOf(claims', u, i)) <= 1
        /\ call'.op = "claim_item" =>
              \A i \in DOMAIN items, u \in UserIdInputs, m \in MessageInputs :
                 ( /\ items[i].status = "approved"
                   /\ items[i].user_id # u
                   /\ PendingOf(claims, u, i) # {}
                   /\ claim_item(i, u, m) )
                 => ( /\ resp'.status = "failed"
                      /\ resp'.message = "You already have a pending claim for this item"
                      /\ claims' = claims ) ]_vars

C10_Witness ==
    /\ call.op = "claim_item"
    /\ resp.message = "You already have a pending claim for this item"
    /\ \E c \in DOMAIN claims : claims[c].status = "pending"

\* the five preconditions of claim_item as the claims state them, in their
\* order of precedence
ItemMissing(i) == i \notin DOMAIN items
ItemNotApproved(i) == i \in DOMAIN items /\ items[i].status # "approved"
SelfClaim(i, u) == i \in DOMAIN items /\ items[i].user_id = u
DuplicatePending(i, u) == PendingOf(claims, u, i) # {}
ShortMessage(m) == Len(strip(m)) < 10

\* C11: when several preconditions of claim_item fail at once, the error
\* reported is that of the first failing one in the order item-exists,
\* item-approved, not-self-claim, no-duplicate-pending-claim, message-length,
\* and no claim is inserted.
C11_FirstFailureReported ==
    \A i \in ItemIdInputs, u \in UserIdInputs, m \in MessageInputs :
       (ItemMissing(i) \/ ItemNotApproved(i) \/ SelfClaim(i, u)
          \/ DuplicatePending(i, u) \/ ShortMessage(m))
       => ~ENABLED
             ( /\ claim_item(i, u, m)
               /\ ~( /\ resp'.status = "failed"
                     /\ claims' = claims
                     /\ resp'.message =
                          IF ItemMissing(i) THEN "Item not found"
                          ELSE IF ItemNotApproved(i)
                          THEN "Items must be approved by admin before claiming"
                          ELSE IF SelfClaim(i, u) THEN "You cannot claim your own item"
                          ELSE IF DuplicatePending(i, u)
                          THEN "You already have a pending claim for this item"
                          ELSE "Claim message must be at least 10 characters" ) )

\* a too-short message of a claimant with a pending claim against an item
\* that is no longer approved was answered with the not-approved error
C11_Witness ==
    /\ call.op = "claim_item"
    /\ resp.message = "Items must be approved by admin before claiming"
    /\ \E i \in DOMAIN items, u \in DOMAIN users :
          /\ ItemNotApproved(i)
          /\ DuplicatePending(i, u)
          /\ ShortMessage("  too short ")
          /\ ENABLED (claim_item(i, u, "  too short ") /\ resp' = resp)

\* the fields of a submission as the claims state their validity
FieldsValid(f) ==
    /\ f.item_type \in {"lost", "found"}
    /\ Len(f.item_name) >= 3 /\ Len(f.item_name) <= 100
    /\ Len(f.item_description) >= 10 /\ Len(f.item_description) <= 500
    /\ Len(f.location) >= 3 /\ Len(f.location) <= 100
    /\ Len(f.content_type) >= 6 /\ SubSeq(f.content_type, 1, 6) = "image/"
    /\ f.size <= 5 * 1024 * 1024

\* the step stores exactly one new item, pending and not found, and changes
\* no other item, claim or user
OneItemAdded ==
    /\ DOMAIN items \subseteq DOMAIN items'
    /\ Cardinality(DOMAIN items' \ DOMAIN items) = 1
    /\ \A n \in DOMAIN items' \ DOMAIN items :
          items'[n].status = "pending" /\ ~items'[n].found
    /\ \A n \in DOMAIN items : items'[n] = items[n]
    /\ claims' = claims
    /\ users' = users

\* C12: submitting an item with an existing owner and valid fields succeeds
\* and adds exactly one new item, pending and not found, changing no other
\* item, claim or user.
C12_ValidSubmissionAddsItem ==
    [][ call'.op = "add_lost_item" =>
           \A u \in DOMAIN users, f \in FormInputs :
              (FieldsValid(f) /\ add_lost_item(u, f))
              => (resp'.status = "success" /\ OneItemAdded) ]_vars

\* C13: every step of the lifecycle reports success when its turn has come:
\* the registration of a new user, the submission of an item (left pending),
\* the approval of a pending item (left approved), the claim of another user
\* with a long enough message (left pending), and the approval of that claim
\* (left approved, the response carrying an email_sent flag).
C13_LifecycleSucceeds ==
    [][ /\ \A e \in EmailInputs :
              ((\A a \in DOMAIN users : users[a].email # e) /\ signup(e))
              => ( /\ resp'.status = "success"
                   /\ \E a \in DOMAIN users' : users'[a].email = e )
        /\ \A u \in DOMAIN users, f \in FormInputs :
              (FieldsValid(f) /\ add_lost_item(u, f))
              => ( /\ resp'.status = "success"
                   /\ \E n \in DOMAIN items' \ DOMAIN items : items'[n].status = "pending" )
        /\ \A c \in Callers, i \in DOMAIN items :
              (CallerRole(c) = "admin" /\ items[i].status = "pending" /\ approve_item(c, i))
              => (resp'.status = "success" /\ items'[i].status = "approved")
        /\ \A i \in DOMAIN items, u \in DOMAIN users, m \in MessageInputs :
              ( /\ items[i].status = "approved" /\ items[i].user_id # u
                /\ PendingOf(claims, u, i) = {} /\ Len(strip(m)) >= 10
                /\ claim_item(i, u, m) )
              => ( /\ resp'.status = "success"
                   /\ \E k \in NewClaims : claims'[k].status = "pending" )
        /\ \A c \in Callers, k \in DOMAIN claims, d \in BOOLEAN :
              (CallerRole(c) = "admin" /\ claims[k].status = "pending"
                 /\ approve_claim(c, k, d))
              => ( /\ resp'.status = "success"
                   /\ claims'[k].status = "approved"
                   /\ "email_sent" \in DOMAIN resp'.data ) ]_vars

\* C14: once the status of an item or of a claim is approved or rejected, no
\* step changes it to another value.
C14_DecidedIsTerminal ==
    [][ /\ \A i \in DOMAIN items \cap DOMAIN items' :
              items[i].status \in {"approved", "rejected"}
              => items'[i].status = items[i].status
        /\ \A c \in DOMAIN claims \cap DOMAIN claims' :
              claims[c].status \in {"approved", "rejected"}
              => claims'[c].status = claims[c].status ]_vars

\* C15: delete_item by the owner of an item succeeds and removes the item
\* and every claim against it, and no stored claim references an item that
\* is not stored.
C15_DeleteCascades ==
    /\ \A c \in DOMAIN claims : claims[c].item_id \in DOMAIN items
    /\ \A i \in DOMAIN items :
          ~ENABLED ( /\ delete_item(i, items[i].user_id)
                     /\ ~( /\ resp'.status = "success"
                           /\ i \notin DOMAIN items'
                           /\ \A c \in DOMAIN claims' : claims'[c].item_id # i ) )

\* an item was deleted by its owner after a claim had been made against it,
\* and neither the item nor a claim is left
C15_Witness ==
    /\ call.op = "delete_item"
    /\ resp.status = "success"
    /\ smtp = <<>>
    /\ nextClaimId > 1
    /\ DOMAIN items = {}
    /\ DOMAIN claims = {}

\* C16: a decision on a stored item or claim succeeds whatever its status
\* and sets the status to the decided value; a decision on an id that is not
\* stored fails with not-found and changes no row.
C16_DecisionOverwrites ==
    \A c \in Callers :
       /\ \A i \in ItemIdInputs :
             IF i \in DOMAIN items
             THEN /\ ~ENABLED ( /\ approve_item(c, i)
                                /\ ~( /\ resp'.status = "success"
                                      /\ items'[i].status = "approved" ) )
                  /\ ~ENABLED ( /\ reject_item(c, i)
                                /\ ~( /\ resp'.status = "success"
                                      /\ items'[i].status = "rejected" ) )
             ELSE /\ ~ENABLED ( /\ approve_item(c, i)
                                /\ ~( /\ resp'.status = "failed"
                                      /\ resp'.status_code = 404
                                      /\ items' = items /\ claims' = claims ) )
                  /\ ~ENABLED ( /\ reject_item(c, i)
                                /\ ~( /\ resp'.status = "failed"
                                      /\ resp'.status_code = 404
                                      /\ items' = items /\ claims' = claims ) )
       /\ \A k \in ClaimIdInputs :
             IF k \in DOMAIN claims
             THEN /\ \A d \in BOOLEAN :
                        ~ENABLED ( /\ approve_claim(c, k, d)
                                   /\ ~( /\ resp'.status = "success"
                                         /\ claims'[k].status = "approved" ) )
                  /\ ~ENABLED ( /\ reject_claim(c, k)
                                /\ ~( /\ resp'.status = "success"
                                      /\ claims'[k].status = "rejected" ) )
             ELSE /\ \A d \in BOOLEAN :
                        ~ENABLED ( /\ approve_claim(c, k, d)
                                   /\ ~( /\ resp'.status = "failed"
                                         /\ resp'.status_code = 404
                                         /\ items' = items /\ claims' = claims ) )
                  /\ ~ENABLED ( /\ reject_claim(c, k)
                                /\ ~( /\ resp'.status = "failed"
                                      /\ resp'.status_code = 404
                                      /\ items' = items /\ claims' = claims ) )

\* an item that had been approved and marked as found was rejected
C16_Witness ==
    /\ call.op = "reject_item"
    /\ resp.status = "success"
    /\ \E i \in DOMAIN items : items[i].found /\ items[i].status = "rejected"

\* the stored items whose found flag differs after the step
ItemFoundChanged ==
    {i \in DOMAIN items \cap DOMAIN items' : items'[i].found # items[i].found}

\* C17: a step that changes the status of an item is approve_item or
\* reject_item, one that changes the status of a claim is approve_claim or
\* reject_claim, and one that changes a found flag is mark_as_found.
C17_OnlyDecisionsAndMarkFound ==
    [][ /\ ItemStatusChanged # {} => call'.op \in {"approve_item", "reject_item"}
        /\ ClaimStatusChanged # {} => call'.op \in {"approve_claim", "reject_claim"}
        /\ ItemFoundChanged # {} => call'.op = "mark_as_found" ]_vars

\* an approved item marked as found was edited, and is still approved and found
C17_Witness ==
    /\ call.op = "edit_item"
    /\ \E i \in DOMAIN items :
          /\ items[i].item_name = "Black wallet"
          /\ items[i].status = "approved"
          /\ items[i].found

\* the claims of claimant u against item i that are approved or rejected
ResolvedOf(tbl, u, i) ==
    {c \in DOMAIN tbl : /\ tbl[c].user_id = u /\ tbl[c].item_id = i
                        /\ tbl[c].status \in {"approved", "rejected"}}

\* C18: a user whose claims against an approved item are all resolved can
\* claim it again: the new claim is created as pending.
C18_ReclaimAfterResolution ==
    \A i \in DOMAIN items, u \in DOMAIN users, m \in MessageInputs :
       ( /\ items[i].status = "approved"
         /\ items[i].user_id # u
         /\ ResolvedOf(claims, u, i) # {}
         /\ PendingOf(claims, u, i) = {}
         /\ Len(strip(m)) >= 10 )
       => ~ENABLED ( /\ claim_item(i, u, m)
                     /\ ~( /\ resp'.status = "success"
                           /\ Cardinality(NewClaims) = 1
                           /\ \A k \in NewClaims :
                                 /\ claims'[k].user_id = u
                                 /\ claims'[k].item_id = i
                                 /\ claims'[k].status = "pending" ) )

\* a claimant holds a resolved claim and a newer pending claim on one item
C18_Witness ==
    /\ call.op = "claim_item"
    /\ resp.status = "success"
    /\ \E a, b \in DOMAIN claims :
          /\ a < b
          /\ claims[a].user_id = claims[b].user_id
          /\ claims[a].item_id = claims[b].item_id
          /\ claims[a].status \in {"approved", "rejected"}
          /\ claims[b].status = "pending"
          /\ resp.data.claim_id = b

\* C19: the request served last made one notification attempt when it was
\* an approve_claim that found its claim, and none otherwise.
C19_NotifyOnlyOnApproveClaim ==
    Len(smtp) = IF call.op = "approve_claim" /\ resp.status_code # 404 THEN 1 ELSE 0

\* a claim was rejected and no notification was attempted
C19_Witness ==
    /\ call.op = "reject_claim"
    /\ resp.status = "success"
    /\ smtp = <<>>
    /\ \E c \in DOMAIN claims : claims[c].status = "rejected"

\* the answer to a request on an item that is missing or not the caller's
Unauthorized ==
    /\ resp'.status = "failed"
    /\ resp'.message = "Item not found or unauthorized"
    /\ items' = items
    /\ claims' = claims

\* C20: mark_as_found, delete_item and edit_item with a user_id that is not
\* the owner of the item, or an item_id that is not stored, fail with 'Item
\* not found or unauthorized' and change no item and no claim.
C20_OwnerOnly ==
    \A i \in ItemIdInputs, u \in UserIdInputs :
       (i \notin DOMAIN items \/ items[i].user_id # u)
       => /\ ~ENABLED (mark_as_found(i, u) /\ ~Unauthorized)
          /\ ~ENABLED (delete_item(i, u) /\ ~Unauthorized)
          /\ \A p \in UpdateInputs : ~ENABLED (edit_item(i, u, p) /\ ~Unauthorized)

\* delete_item was refused, and another user's delete of a stored item with
\* a claim against it is answered that way
C20_Witness ==
    /\ call.op = "delete_item"
    /\ resp.message = "Item not found or unauthorized"
    /\ \E i \in DOMAIN items, u \in DOMAIN users :
          /\ items[i].user_id # u
          /\ \E c \in DOMAIN claims : claims[c].item_id = i
          /\ ENABLED (delete_item(i, u) /\ resp' = resp)

\* C21: mark_as_found by the owner of an approved item reports success, sets
\* found to true and changes nothing else of the item, no other item and no
\* claim.
C21_MarkFoundSucceeds ==
    [][ call'.op = "mark_as_found" =>
           \A i \in DOMAIN items, u \in UserIdInputs :
              ( /\ items[i].user_id = u
                /\ items[i].status = "approved"
                /\ mark_as_found(i, u) )
              => ( /\ resp'.status = "success"
                   /\ items' = [items EXCEPT ![i].found = TRUE]
                   /\ claims' = claims ) ]_vars

\* C23: a request answered with status 'failed' leaves the stored users,
\* items and claims as they were before it.
C23_FailureChangesNothing ==
    [][ resp'.status = "failed"
           => (users' = users /\ items' = items /\ claims' = claims) ]_vars

\* whitespace only
Blank(s) == \A k \in 1..Len(s) : SubSeq(s, k, k) \in {" ", "\t", "\n", "\r"}

\* the number of whitespace characters a message starts with
Leading(m) ==
    CHOOSE a \in 0..Len(m) :
       Blank(SubSeq(m, 1, a)) /\ (a = Len(m) \/ ~Blank(SubSeq(m, a + 1, a + 1)))

\* the number of whitespace characters a message ends with
Trailing(m) ==
    CHOOSE b \in 0..Len(m) :
       /\ Blank(SubSeq(m, Len(m) - b + 1, Len(m)))
       /\ (b = Len(m) \/ ~Blank(SubSeq(m, Len(m) - b, Len(m) - b)))

\* a message without its surrounding whitespace
Trimmed(m) ==
    IF Blank(m) THEN "" ELSE SubSeq(m, Leading(m) + 1, Len(m) - Trailing(m))

C24_InsertOnlyWhileApproved ==
    [][ \A c \in NewClaims :
           /\ claims'[c].item_id \in DOMAIN items
           /\ items[claims'[c].item_id].status = "approved" ]_vars

\* C25: approve_claim and reject_claim on a stored claim change the status
\* of that claim and nothing else: no item, no user, no other claim.
C25_ClaimDecisionFrame ==
    \A c \in Callers, k \in DOMAIN claims :
       /\ \A d \in BOOLEAN :
             ~ENABLED ( /\ approve_claim(c, k, d)
                        /\ ~( /\ items' = items
                              /\ users' = users
                              /\ claims' = [claims EXCEPT ![k].status = "approved"] ) )
       /\ ~ENABLED ( /\ reject_claim(c, k)
                     /\ ~( /\ items' = items
                           /\ users' = users
                           /\ claims' = [claims EXCEPT ![k].status = "rejected"] ) )

\* a claim was approved while another user's claim on the same item stays pending
C25_Witness ==
    /\ call.op = "approve_claim"
    /\ resp.status = "success"
    /\ \E a, b \in DOMAIN claims :
          /\ claims[a].item_id = claims[b].item_id
          /\ claims[a].user_id # claims[b].user_id
          /\ resp.data.claim_id = a
          /\ claims[a].status = "approved"
          /\ claims[b].status = "pending"

\* C26: every stored claim references a stored item and a stored user, every
\* stored item a stored user, and claim_item with a user_id that belongs to
\* no user inserts no claim.
C26_ReferencesExist ==
    /\ \A c \in DOMAIN claims :
          claims[c].item_id \in DOMAIN items /\ claims[c].user_id \in DOMAIN users
    /\ \A i \in DOMAIN items : items[i].user_id \in DOMAIN users
    /\ \A i \in ItemIdInputs, u \in UserIdInputs \ DOMAIN users, m \in MessageInputs :
          ~ENABLED ( /\ claim_item(i, u, m)
                     /\ ~(resp'.status = "failed" /\ claims' = claims) )

\* the insert of a claim for an approved item was refused by the store
C26_Witness ==
    /\ call.op = "claim_item"
    /\ resp.status_code = 500
    /\ \E i \in DOMAIN items : items[i].status = "approved"
    /\ \E u \in UserIdInputs \ DOMAIN users, m \in MessageInputs :
          \E i \in DOMAIN items : ENABLED (claim_item(i, u, m) /\ resp' = resp)

\* C27: an item whose found flag is true keeps it true for as long as the
\* item is stored.
C27_FoundIsMonotone ==
    [][ \A i \in DOMAIN items \cap DOMAIN items' :
           items[i].found => items'[i].found ]_vars

\* an item marked as found was rejected and then edited, and is still found
C27_Witness ==
    /\ call.op = "edit_item"
    /\ \E i \in DOMAIN items :
          /\ items[i].found
          /\ items[i].status = "rejected"
          /\ items[i].item_name = "Black wallet"

====
